---- MODULE Spec2Model ----
(***************************************************************************)
(* Holiday planning as an integer linear program: the workshop notebook    *)
(* (data preparation, model building, solve, decoding) as a state machine. *)
(*                                                                         *)
(* Representation                                                          *)
(*   date        an integer, the number of days since                      *)
(*               PLANNING_PERIOD_START_DATE; date + timedelta(days=k) is   *)
(*               integer addition; the ISO weekday of day 0 is an input.   *)
(*   utility     Python floats 1, 0.5, ... held exactly as integers in     *)
(*               units of one half (1.0 is 2, 0.5 is 1).                   *)
(*   varValue    the solved value of a variable in thousandths (1.0 is     *)
(*               1000), wrapped: <<>> is None, <<v>> is the value v.       *)
(***************************************************************************)
EXTENDS Integers, Sequences, FiniteSets, TLC

VARIABLES
    LocalConfig,                    \* the configuration class
    start_weekday,                  \* ISO weekday of PLANNING_PERIOD_START_DATE
    all_public_holidays,            \* dates read from the calendar file
    pc,                             \* the next notebook cell to run
    end_date,
    all_dates_in_period,
    holiday_periods,
    dict_marginal_value_of_day_off,
    dict_cost_of_taking_day_off,
    dict_variables,
    varValue,
    model,
    printed,
    selected_periods

vars == <<LocalConfig, start_weekday, all_public_holidays, pc, end_date,
          all_dates_in_period, holiday_periods, dict_marginal_value_of_day_off,
          dict_cost_of_taking_day_off, dict_variables, varValue, model, printed,
          selected_periods>>

-----------------------------------------------------------------------------
(* Bounds of the model *)

\* length of the planning horizon, in days (NUMBER_DAYS_IN_YEAR)
MaxDays == 5
\* largest MAX_HOLIDAY_PERIOD_LENGTH
MaxLen == 3
\* largest HOLIDAY_BUDGET
MaxBudget == 2
\* durations 0..MaxDuration are fed to the duration step function
MaxDuration == 9

-----------------------------------------------------------------------------
(* Helpers over sequences and sets *)

Range(seq) == {seq[i] : i \in DOMAIN seq}

RECURSIVE SumSeq(_)
SumSeq(seq) == IF seq = <<>> THEN 0 ELSE Head(seq) + SumSeq(Tail(seq))

RECURSIVE SumOver(_, _)
SumOver(f, S) ==
    IF S = {} THEN 0
    ELSE LET x == CHOOSE y \in S : TRUE IN f[x] + SumOver(f, S \ {x})

None == <<>>
Some(v) == <<v>>

-----------------------------------------------------------------------------
(* Calendar *)

isoweekday(day) == ((start_weekday - 1 + day) % 7) + 1

\* (variant: the weekend starts on Friday)
is_weekend_day_from_friday(day) == isoweekday(day) \in {5, 6, 7}

is_weekend_day(day) == isoweekday(day) \in {6, 7}

-----------------------------------------------------------------------------
(* HolidayPeriod: a start date and a duration in days *)

HolidayPeriod(start, dur) == [start_date |-> start, duration_in_days |-> dur]

duration(period) == period.duration_in_days

\* the period's days in order: start_date, start_date + 1, ...
all_days(period) ==
    [i \in 1..period.duration_in_days |-> period.start_date + (i - 1)]

-----------------------------------------------------------------------------
(* 1a. The catalog of periods *)

\* the inner loop of generate_all_possible_holiday_periods for one start date:
\* durations ascending from `dur`, left at the first one that fails the end check
\* (variant: the end check never stops the loop)
RECURSIVE periods_from_unbounded(_, _, _)
periods_from_unbounded(start, dur, planning_end_date) ==
    IF dur > LocalConfig.MAX_HOLIDAY_PERIOD_LENGTH THEN <<>>
    ELSE <<[start_date |-> start, duration_in_days |-> dur]>>
             \o periods_from_unbounded(start, dur + 1, planning_end_date)

RECURSIVE periods_from(_, _, _)
periods_from(start, dur, planning_end_date) ==
    IF dur > LocalConfig.MAX_HOLIDAY_PERIOD_LENGTH THEN <<>>
    ELSE IF start + dur > planning_end_date THEN <<>>
    ELSE <<HolidayPeriod(start, dur)>>
             \o periods_from(start, dur + 1, planning_end_date)

\* (variant: the one-day period of a start date is added before any check)
RECURSIVE generate_with_first_day_unchecked(_, _)
generate_with_first_day_unchecked(potential_start_dates, planning_end_date) ==
    IF potential_start_dates = <<>> THEN <<>>
    ELSE <<HolidayPeriod(Head(potential_start_dates), 1)>>
             \o periods_from(Head(potential_start_dates), 2, planning_end_date)
             \o generate_with_first_day_unchecked(Tail(potential_start_dates),
                                                  planning_end_date)

\* (variant: the failed end check leaves both loops)
RECURSIVE generate_leaving_both_loops(_, _)
generate_leaving_both_loops(potential_start_dates, planning_end_date) ==
    IF potential_start_dates = <<>> THEN <<>>
    ELSE LET periods == periods_from(Head(potential_start_dates), 1, planning_end_date)
         IN  IF Len(periods) < LocalConfig.MAX_HOLIDAY_PERIOD_LENGTH THEN periods
             ELSE periods \o generate_leaving_both_loops(Tail(potential_start_dates),
                                                         planning_end_date)

RECURSIVE generate_all_possible_holiday_periods(_, _)
generate_all_possible_holiday_periods(potential_start_dates, planning_end_date) ==
    IF potential_start_dates = <<>> THEN <<>>
    ELSE periods_from(Head(potential_start_dates), 1, planning_end_date)
             \o generate_all_possible_holiday_periods(Tail(potential_start_dates),
                                                      planning_end_date)

-----------------------------------------------------------------------------
(* 1b. Utility *)

\* (variant: both rules add their bonus)
marginal_value_of_stacking(datestamp) ==
    LocalConfig.BASELINE_MARGINAL_VALUE
    + (IF isoweekday(datestamp) \in LocalConfig.PREFERRED_WEEKDAYS_OFF
       THEN LocalConfig.BONUS_MARGINAL_VALUE ELSE 0)
    + (IF datestamp \in LocalConfig.PREFERRED_DATES_OFF
       THEN LocalConfig.BONUS_MARGINAL_VALUE ELSE 0)

marginal_value_of(datestamp) ==
    IF isoweekday(datestamp) \in LocalConfig.PREFERRED_WEEKDAYS_OFF
    THEN LocalConfig.BASELINE_MARGINAL_VALUE + LocalConfig.BONUS_MARGINAL_VALUE
    ELSE IF datestamp \in LocalConfig.PREFERRED_DATES_OFF
    THEN LocalConfig.BASELINE_MARGINAL_VALUE + LocalConfig.BONUS_MARGINAL_VALUE
    ELSE LocalConfig.BASELINE_MARGINAL_VALUE

generate_marginal_value_lookup(dates) ==
    [datestamp \in Range(dates) |-> marginal_value_of(datestamp)]

\* `value = 1` of the source is 2 half-units
calculate_value_for_period_duration(duration_in_days) ==
    LET value == 2
        min_duration == LocalConfig.PERIOD_LENGTH_GAIN_START
        max_duration == LocalConfig.PERIOD_LENGTH_GAIN_CUTOFF
    IN  IF duration_in_days < min_duration THEN 0
        ELSE IF duration_in_days > max_duration
        THEN (max_duration - min_duration + 1) * value
        ELSE (duration_in_days - min_duration + 1) * value

\* (variant: no minimum duration to get value)
calculate_value_of_period_ungated(period, marginal_value_lookup) ==
    SumSeq([i \in DOMAIN all_days(period) |->
               marginal_value_lookup[all_days(period)[i]]])
    + calculate_value_for_period_duration(duration(period))

\* (variant: a period of exactly the minimum duration has no value)
calculate_value_of_period_strict(period, marginal_value_lookup) ==
    IF duration(period) <= LocalConfig.MIN_TIME_OFF_TO_GET_VALUE THEN 0
    ELSE SumSeq([i \in DOMAIN all_days(period) |->
                    marginal_value_lookup[all_days(period)[i]]])
         + calculate_value_for_period_duration(duration(period))

\* period_based_value_generator, the third argument of the source, is
\* calculate_value_for_period_duration at every call
calculate_value_of_period(period, marginal_value_lookup) ==
    IF duration(period) < LocalConfig.MIN_TIME_OFF_TO_GET_VALUE THEN 0
    ELSE SumSeq([i \in DOMAIN all_days(period) |->
                    marginal_value_lookup[all_days(period)[i]]])
         + calculate_value_for_period_duration(duration(period))

-----------------------------------------------------------------------------
(* 1c. Cost *)

\* (variant: public holidays are paid for)
cost_of_weekends_only(datestamp, cost_free_dates) ==
    IF is_weekend_day(datestamp) THEN 0 ELSE 1

cost_of(datestamp, cost_free_dates) ==
    IF is_weekend_day(datestamp) THEN 0
    ELSE IF datestamp \in cost_free_dates THEN 0
    ELSE 1

generate_cost_lookup(dates, cost_free_dates) ==
    [datestamp \in Range(dates) |-> cost_of(datestamp, cost_free_dates)]

\* (variant: the total is overwritten, not added to: the cost of the last day)
calculate_cost_of_period_of_last_day(period, daily_cost_lookup) ==
    daily_cost_lookup[all_days(period)[Len(all_days(period))]]

calculate_cost_of_period(period, daily_cost_lookup) ==
    SumSeq([i \in DOMAIN all_days(period) |->
                daily_cost_lookup[all_days(period)[i]]])

-----------------------------------------------------------------------------
(* Initial state: a configuration and a calendar, nothing computed yet *)

\* The values LocalConfig is set to. The class is used as written, without
\* any validation, so a zero maximum length, a negative budget and a gain
\* cutoff below the gain start are among them. Marginal values are in
\* half-units (BASELINE 1 is 2, BONUS 0.5 is 1).
Configs ==
    [ NUMBER_DAYS_IN_YEAR       : {MaxDays},
      MAX_HOLIDAY_PERIOD_LENGTH : 0..MaxLen,
      MIN_TIME_OFF_TO_GET_VALUE : {1, 3},
      PERIOD_LENGTH_GAIN_START  : {2, 4},
      PERIOD_LENGTH_GAIN_CUTOFF : {2, 4},
      BASELINE_MARGINAL_VALUE   : {2},
      BONUS_MARGINAL_VALUE      : {1},
      PREFERRED_WEEKDAYS_OFF    : {{1, 5}},
      PREFERRED_DATES_OFF       : {{}, {1}},
      MUST_HAVE_DATES           : {{}},
      HOLIDAY_BUDGET            : (-1)..MaxBudget ]

Init ==
    /\ LocalConfig \in Configs
    /\ start_weekday \in 1..7
    /\ all_public_holidays \in {{}, {1}}
    /\ pc = "dates"
    /\ end_date = None
    /\ all_dates_in_period = <<>>
    /\ holiday_periods = <<>>
    /\ dict_marginal_value_of_day_off = <<>>
    /\ dict_cost_of_taking_day_off = <<>>
    /\ dict_variables = <<>>
    /\ varValue = <<>>
    /\ model = None
    /\ printed = <<>>
    /\ selected_periods = None

-----------------------------------------------------------------------------
(* The notebook, cell by cell *)

GenerateDates ==
    /\ pc = "dates"
    /\ end_date' = Some(0 + (LocalConfig.NUMBER_DAYS_IN_YEAR - 1))
    /\ all_dates_in_period' = [i \in 1..LocalConfig.NUMBER_DAYS_IN_YEAR |-> 0 + (i - 1)]
    /\ pc' = "periods"
    /\ UNCHANGED <<LocalConfig, start_weekday, all_public_holidays, holiday_periods,
                   dict_marginal_value_of_day_off, dict_cost_of_taking_day_off,
                   dict_variables, varValue, model, printed, selected_periods>>

GeneratePeriods ==
    /\ pc = "periods"
    /\ holiday_periods' =
          generate_all_possible_holiday_periods(all_dates_in_period, end_date[1])
    /\ pc' = "marginal_value"
    /\ UNCHANGED <<LocalConfig, start_weekday, all_public_holidays, end_date,
                   all_dates_in_period, dict_marginal_value_of_day_off,
                   dict_cost_of_taking_day_off, dict_variables, varValue, model,
                   printed, selected_periods>>

GenerateMarginalValueLookup ==
    /\ pc = "marginal_value"
    /\ dict_marginal_value_of_day_off' = generate_marginal_value_lookup(all_dates_in_period)
    /\ pc' = "cost"
    /\ UNCHANGED <<LocalConfig, start_weekday, all_public_holidays, end_date,
                   all_dates_in_period, holiday_periods, dict_cost_of_taking_day_off,
                   dict_variables, varValue, model, printed, selected_periods>>

GenerateCostLookup ==
    /\ pc = "cost"
    /\ dict_cost_of_taking_day_off' =
          generate_cost_lookup(all_dates_in_period, all_public_holidays)
    /\ pc' = "model"
    /\ UNCHANGED <<LocalConfig, start_weekday, all_public_holidays, end_date,
                   all_dates_in_period, holiday_periods, dict_marginal_value_of_day_off,
                   dict_variables, varValue, model, printed, selected_periods>>

-----------------------------------------------------------------------------
(* 2. The PuLP model: objective, constraints, status *)

\* (variant: the name holds the start date only)
var_name_by_start_date(period) == <<"being_off", period.start_date>>

\* the name given to the decision variable of a period; a variable is its name
var_name(period) == <<"being_off", period.start_date, period.duration_in_days>>

Variables == {dict_variables[p] : p \in DOMAIN dict_variables}

period_of(v) == CHOOSE p \in DOMAIN dict_variables : dict_variables[p] = v

\* pulp.LpConstraint(e, sense, rhs, name); e maps each variable of the sum to
\* its coefficient
LpConstraint(e, sense, rhs, name) ==
    [e |-> e, sense |-> sense, rhs |-> rhs, name |-> name]

objective_function ==
    [v \in Variables |->
        calculate_value_of_period(period_of(v), dict_marginal_value_of_day_off)]

\* (variant: the budget is one unit too generous)
budget_constraint_plus_one ==
    [e |-> [v \in Variables |->
               calculate_cost_of_period(period_of(v), dict_cost_of_taking_day_off)],
     sense |-> "LE", rhs |-> LocalConfig.HOLIDAY_BUDGET + 1,
     name |-> <<"BudgetConstraint">>]

\* (variant: the budget is a minimum to spend)
budget_constraint_at_least ==
    [e |-> [v \in Variables |->
               calculate_cost_of_period(period_of(v), dict_cost_of_taking_day_off)],
     sense |-> "GE", rhs |-> LocalConfig.HOLIDAY_BUDGET,
     name |-> <<"BudgetConstraint">>]

budget_constraint ==
    LpConstraint([v \in Variables |->
                     calculate_cost_of_period(period_of(v), dict_cost_of_taking_day_off)],
                 "LE", LocalConfig.HOLIDAY_BUDGET, <<"BudgetConstraint">>)

\* the variables of the periods that contain the date
dict_date_variable_coverage ==
    [datestamp \in Range(all_dates_in_period) |->
        {dict_variables[p] : p \in {q \in DOMAIN dict_variables :
                                       datestamp \in Range(all_days(q))}}]

\* (variant: a date may be covered twice)
date_constraint_twice(datestamp) ==
    [e |-> [v \in dict_date_variable_coverage[datestamp] |-> 1],
     sense |-> "LE", rhs |-> 2, name |-> <<"OneDayPerDate", datestamp>>]

date_constraint(datestamp) ==
    LpConstraint([v \in dict_date_variable_coverage[datestamp] |-> 1],
                 "LE", 1, <<"OneDayPerDate", datestamp>>)

dict_date_constraints ==
    [i \in DOMAIN all_dates_in_period |-> date_constraint(all_dates_in_period[i])]

CreateModel ==
    /\ pc = "model"
    /\ model' = [objective |-> None, constraints |-> <<>>, status |-> "NotSolved",
                 solves |-> 0]
    /\ pc' = "variables"
    /\ UNCHANGED <<LocalConfig, start_weekday, all_public_holidays, end_date,
                   all_dates_in_period, holiday_periods, dict_marginal_value_of_day_off,
                   dict_cost_of_taking_day_off, dict_variables, varValue, printed,
                   selected_periods>>

CreateVariables ==
    /\ pc = "variables"
    /\ dict_variables' = [period \in Range(holiday_periods) |-> var_name(period)]
    /\ varValue' = [v \in {var_name(period) : period \in Range(holiday_periods)} |-> None]
    /\ pc' = "objective"
    /\ UNCHANGED <<LocalConfig, start_weekday, all_public_holidays, end_date,
                   all_dates_in_period, holiday_periods, dict_marginal_value_of_day_off,
                   dict_cost_of_taking_day_off, model, printed, selected_periods>>

SetObjective ==
    /\ pc = "objective"
    /\ model' = [model EXCEPT !.objective = Some(objective_function)]
    /\ pc' = "budget"
    /\ UNCHANGED <<LocalConfig, start_weekday, all_public_holidays, end_date,
                   all_dates_in_period, holiday_periods, dict_marginal_value_of_day_off,
                   dict_cost_of_taking_day_off, dict_variables, varValue, printed,
                   selected_periods>>

AddBudgetConstraint ==
    /\ pc = "budget"
    /\ model' = [model EXCEPT !.constraints = Append(@, budget_constraint)]
    /\ pc' = "coverage"
    /\ UNCHANGED <<LocalConfig, start_weekday, all_public_holidays, end_date,
                   all_dates_in_period, holiday_periods, dict_marginal_value_of_day_off,
                   dict_cost_of_taking_day_off, dict_variables, varValue, printed,
                   selected_periods>>

\* (variant: the cell that adds the coverage constraints is passed over)
AddCoverageConstraints_passed_over ==
    /\ pc = "coverage"
    /\ pc' = "must_have"
    /\ UNCHANGED <<LocalConfig, start_weekday, all_public_holidays, end_date,
                   all_dates_in_period, holiday_periods, dict_marginal_value_of_day_off,
                   dict_cost_of_taking_day_off, dict_variables, varValue, model, printed,
                   selected_periods>>

AddCoverageConstraints ==
    /\ pc = "coverage"
    /\ model' = [model EXCEPT !.constraints = @ \o dict_date_constraints]
    /\ pc' = "must_have"
    /\ UNCHANGED <<LocalConfig, start_weekday, all_public_holidays, end_date,
                   all_dates_in_period, holiday_periods, dict_marginal_value_of_day_off,
                   dict_cost_of_taking_day_off, dict_variables, varValue, printed,
                   selected_periods>>

\* Constraint 3 of the README (optional): for each must-have date, at least
\* one period covering that date must be selected
must_have_constraint(datestamp) ==
    LpConstraint([v \in dict_date_variable_coverage[datestamp] |-> 1],
                 "GE", 1, <<"MustHaveDate", datestamp>>)

must_have_dates == [i \in 1..Cardinality(LocalConfig.MUST_HAVE_DATES) |->
                       CHOOSE datestamp \in LocalConfig.MUST_HAVE_DATES :
                           Cardinality({e \in LocalConfig.MUST_HAVE_DATES : e < datestamp}) = i - 1]

AddMustHaveConstraints ==
    /\ pc = "must_have"
    /\ model' = [model EXCEPT !.constraints =
                     @ \o [i \in DOMAIN must_have_dates |->
                              must_have_constraint(must_have_dates[i])]]
    /\ pc' = "solve"
    /\ UNCHANGED <<LocalConfig, start_weekday, all_public_holidays, end_date,
                   all_dates_in_period, holiday_periods, dict_marginal_value_of_day_off,
                   dict_cost_of_taking_day_off, dict_variables, varValue, printed,
                   selected_periods>>

-----------------------------------------------------------------------------
(* 3. The solver (CBC behind model.solve), by its contract: a selection is  *)
(* the set of variables at 1; it is feasible when every constraint of the  *)
(* model holds, optimal when no feasible selection has a larger objective. *)

lhs_value(c, selection) == SumOver(c.e, DOMAIN c.e \cap selection)

satisfies(c, selection) ==
    IF c.sense = "LE" THEN lhs_value(c, selection) <= c.rhs
    ELSE lhs_value(c, selection) >= c.rhs

upper_constraints(m) ==
    {m.constraints[i] : i \in {j \in DOMAIN m.constraints :
        /\ m.constraints[j].sense = "LE"
        /\ \A v \in DOMAIN m.constraints[j].e : m.constraints[j].e[v] >= 0}}

\* the selections over the first k variables of `order` that break none of
\* `upper`, the <= constraints with non-negative coefficients (a selection that
\* breaks one of them cannot be extended to a feasible one)
RECURSIVE partial_selections(_, _, _)
partial_selections(upper, order, k) ==
    IF k = 0 THEN {{}}
    ELSE LET prev == partial_selections(upper, order, k - 1)
         IN  prev \cup {s \in {t \cup {order[k]} : t \in prev} :
                           \A c \in upper : satisfies(c, s)}

variable_order == [i \in DOMAIN holiday_periods |-> dict_variables[holiday_periods[i]]]

feasible_selections(m) ==
    {s \in partial_selections(upper_constraints(m), variable_order, Len(variable_order)) :
        \A i \in DOMAIN m.constraints : satisfies(m.constraints[i], s)}

objective_value(m, selection) == SumOver(m.objective[1], selection)

\* the selections of `feasible` with the largest objective
optimal_selections(m, feasible) ==
    LET valued == {<<s, objective_value(m, s)>> : s \in feasible}
        values == {sv[2] : sv \in valued}
        best == CHOOSE v \in values : \A w \in values : w <= v
    IN  {sv[1] : sv \in {tw \in valued : tw[2] = best}}

assignment(selection) == [v \in Variables |-> IF v \in selection THEN Some(1000) ELSE Some(0)]

\* model.solve(pulp.PULP_CBC_CMD(timeLimit=20)) in the cell at `at`: the
\* status is Optimal with an optimal selection in the variables, Infeasible
\* when there is no feasible selection (the variables then hold whatever the
\* solver left in them), or Not Solved when the time limit ends the search
solve(at, to) ==
    /\ pc = at
    /\ LET feasible == feasible_selections(model)
       IN  \/ \E s \in optimal_selections(model, feasible) :
                 /\ model' = [model EXCEPT !.status = "Optimal", !.solves = @ + 1]
                 /\ varValue' = assignment(s)
           \/ /\ feasible = {}
              /\ model' = [model EXCEPT !.status = "Infeasible", !.solves = @ + 1]
              /\ \/ UNCHANGED varValue
                 \/ \E s \in {{}} \cup {{v} : v \in Variables} :
                       varValue' = assignment(s)
           \/ /\ model' = [model EXCEPT !.status = "NotSolved", !.solves = @ + 1]
              /\ UNCHANGED varValue
    /\ pc' = to
    /\ UNCHANGED <<LocalConfig, start_weekday, all_public_holidays, end_date,
                   all_dates_in_period, holiday_periods, dict_marginal_value_of_day_off,
                   dict_cost_of_taking_day_off, dict_variables, printed,
                   selected_periods>>

Solve == solve("solve", "status")

\* what the status check prints for a status:
\*   if model.status != pulp.LpStatusOptimal: print("Model did not find ...")
status_report(status) ==
    IF status # "Optimal" THEN <<"Model did not find an optimal solution">> ELSE <<>>

check_status(at, to) ==
    /\ pc = at
    /\ printed' = printed \o status_report(model.status)
    /\ pc' = to
    /\ UNCHANGED <<LocalConfig, start_weekday, all_public_holidays, end_date,
                   all_dates_in_period, holiday_periods, dict_marginal_value_of_day_off,
                   dict_cost_of_taking_day_off, dict_variables, varValue, model,
                   selected_periods>>

CheckStatus == check_status("status", "decode")

\* (variant: a value of one half or more counts as selected)
is_selected_rounding(period) ==
    /\ varValue[dict_variables[period]] # None
    /\ varValue[dict_variables[period]][1] >= 500

\* (variant: a variable without a value is not skipped but taken as selected)
is_selected_unless_valued_low(period) ==
    \/ varValue[dict_variables[period]] = None
    \/ varValue[dict_variables[period]][1] > 990

is_selected(period) ==
    /\ varValue[dict_variables[period]] # None
    /\ varValue[dict_variables[period]][1] > 990

get_selected_holiday_periods == SelectSeq(holiday_periods, is_selected)

decode(at, to) ==
    /\ pc = at
    /\ selected_periods' = Some(get_selected_holiday_periods)
    /\ printed' = Append(printed, <<"Selected", Len(get_selected_holiday_periods)>>)
    /\ pc' = to
    /\ UNCHANGED <<LocalConfig, start_weekday, all_public_holidays, end_date,
                   all_dates_in_period, holiday_periods, dict_marginal_value_of_day_off,
                   dict_cost_of_taking_day_off, dict_variables, varValue, model>>

Decode == decode("decode", "done")

-----------------------------------------------------------------------------
(* 4. The extension of the demo notebook: after the first run, one longer   *)
(* period is required and the same model is solved and decoded again       *)

\* 14 with the notebook's 30-day maximum period length; here on the scale of
\* MaxLen
single_minimum_duration == 3

periods_compliant_with_min_duration ==
    {dict_variables[period] :
        period \in {q \in DOMAIN dict_variables :
                       ~(duration(q) < single_minimum_duration)}}

\* (variant: the duration of the periods is not looked at)
single_min_duration_constraint_any_period ==
    [e |-> [v \in Variables |-> 1], sense |-> "GE", rhs |-> 1,
     name |-> <<"MinRestPeriod">>]

single_min_duration_constraint ==
    LpConstraint([v \in periods_compliant_with_min_duration |-> 1],
                 "GE", 1, <<"MinRestPeriod">>)

AddMinDurationConstraint ==
    /\ pc = "done"
    /\ model' = [model EXCEPT !.constraints = Append(@, single_min_duration_constraint)]
    /\ pc' = "solve_again"
    /\ UNCHANGED <<LocalConfig, start_weekday, all_public_holidays, end_date,
                   all_dates_in_period, holiday_periods, dict_marginal_value_of_day_off,
                   dict_cost_of_taking_day_off, dict_variables, varValue, printed,
                   selected_periods>>

SolveAgain == solve("solve_again", "status_again")

CheckStatusAgain == check_status("status_again", "decode_again")

DecodeAgain == decode("decode_again", "done_again")

\* the workshop notebook
Next ==
    \/ GenerateDates
    \/ GeneratePeriods
    \/ GenerateMarginalValueLookup
    \/ GenerateCostLookup
    \/ CreateModel
    \/ CreateVariables
    \/ SetObjective
    \/ AddBudgetConstraint
    \/ AddCoverageConstraints
    \/ AddMustHaveConstraints
    \/ Solve
    \/ CheckStatus
    \/ Decode

Spec == Init /\ [][Next]_vars

\* the demo notebook: the same cells, then the extension. Its configurations
\* are valid ones (a positive maximum length, a budget of zero or more, a gain
\* cutoff not below the gain start).
ConfigsDemo ==
    [ NUMBER_DAYS_IN_YEAR       : {MaxDays},
      MAX_HOLIDAY_PERIOD_LENGTH : 1..MaxLen,
      MIN_TIME_OFF_TO_GET_VALUE : {1, 3},
      PERIOD_LENGTH_GAIN_START  : {2},
      PERIOD_LENGTH_GAIN_CUTOFF : {4},
      BASELINE_MARGINAL_VALUE   : {2},
      BONUS_MARGINAL_VALUE      : {1},
      PREFERRED_WEEKDAYS_OFF    : {{1, 5}},
      PREFERRED_DATES_OFF       : {{}},
      MUST_HAVE_DATES           : {{}},
      HOLIDAY_BUDGET            : 0..MaxBudget ]

nothing_computed ==
    /\ pc = "dates"
    /\ end_date = None
    /\ all_dates_in_period = <<>>
    /\ holiday_periods = <<>>
    /\ dict_marginal_value_of_day_off = <<>>
    /\ dict_cost_of_taking_day_off = <<>>
    /\ dict_variables = <<>>
    /\ varValue = <<>>
    /\ model = None
    /\ printed = <<>>
    /\ selected_periods = None

InitDemo ==
    /\ LocalConfig \in ConfigsDemo
    /\ start_weekday \in 1..7
    /\ all_public_holidays \in {{}, {1}}
    /\ nothing_computed

NextDemo ==
    \/ Next
    \/ AddMinDurationConstraint
    \/ SolveAgain
    \/ CheckStatusAgain
    \/ DecodeAgain

SpecDemo == InitDemo /\ [][NextDemo]_vars

\* the workshop notebook with must-have dates
ConfigsMustHave ==
    [ NUMBER_DAYS_IN_YEAR       : {MaxDays},
      MAX_HOLIDAY_PERIOD_LENGTH : 1..MaxLen,
      MIN_TIME_OFF_TO_GET_VALUE : {1},
      PERIOD_LENGTH_GAIN_START  : {2},
      PERIOD_LENGTH_GAIN_CUTOFF : {4},
      BASELINE_MARGINAL_VALUE   : {2},
      BONUS_MARGINAL_VALUE      : {1},
      PREFERRED_WEEKDAYS_OFF    : {{1, 5}},
      PREFERRED_DATES_OFF       : {{}},
      MUST_HAVE_DATES           : {{datestamp} : datestamp \in 0..(MaxDays - 1)},
      HOLIDAY_BUDGET            : 0..1 ]

InitMustHave ==
    /\ LocalConfig \in ConfigsMustHave
    /\ start_weekday \in 1..7
    /\ all_public_holidays \in {{}, {1}}
    /\ nothing_computed

SpecMustHave == InitMustHave /\ [][Next]_vars

\* the workshop notebook on one week: seven days, periods of up to seven
\* days, value from more than 3 days on, duration gain from 4 to 20 days,
\* baseline 1 and bonus 0.5 (in half-units), Fridays preferred
ConfigsWeek ==
    [ NUMBER_DAYS_IN_YEAR       : {7},
      MAX_HOLIDAY_PERIOD_LENGTH : {7},
      MIN_TIME_OFF_TO_GET_VALUE : {3},
      PERIOD_LENGTH_GAIN_START  : {4},
      PERIOD_LENGTH_GAIN_CUTOFF : {20},
      BASELINE_MARGINAL_VALUE   : {2},
      BONUS_MARGINAL_VALUE      : {1},
      PREFERRED_WEEKDAYS_OFF    : {{5}},
      PREFERRED_DATES_OFF       : {{}},
      MUST_HAVE_DATES           : {{}},
      HOLIDAY_BUDGET            : 0..MaxBudget ]

InitWeek ==
    /\ LocalConfig \in ConfigsWeek
    /\ start_weekday \in 1..7
    /\ all_public_holidays \in {{}}
    /\ nothing_computed

SpecWeek == InitWeek /\ [][Next]_vars

-----------------------------------------------------------------------------
(* 5. Decoding on its own: the variables hold values no solve of the model  *)
(* above would leave (fractions, values at the threshold, no value)        *)

ConfigsDecode ==
    [ NUMBER_DAYS_IN_YEAR       : {MaxDays},
      MAX_HOLIDAY_PERIOD_LENGTH : {1},
      MIN_TIME_OFF_TO_GET_VALUE : {3},
      PERIOD_LENGTH_GAIN_START  : {4},
      PERIOD_LENGTH_GAIN_CUTOFF : {4},
      BASELINE_MARGINAL_VALUE   : {2},
      BONUS_MARGINAL_VALUE      : {1},
      PREFERRED_WEEKDAYS_OFF    : {{1, 5}},
      PREFERRED_DATES_OFF       : {{}},
      MUST_HAVE_DATES           : {{}},
      HOLIDAY_BUDGET            : {MaxBudget} ]

\* varValue in thousandths: 0.0, 0.5, 0.99, 0.995, 1.0, and no value at all
SolvedValues == {None, Some(0), Some(500), Some(990), Some(995), Some(1000)}

\* everything up to the solve has run, as in the cells above
model_built ==
    /\ end_date = Some(0 + (LocalConfig.NUMBER_DAYS_IN_YEAR - 1))
    /\ all_dates_in_period = [i \in 1..LocalConfig.NUMBER_DAYS_IN_YEAR |-> 0 + (i - 1)]
    /\ holiday_periods =
          generate_all_possible_holiday_periods(all_dates_in_period, end_date[1])
    /\ dict_marginal_value_of_day_off = generate_marginal_value_lookup(all_dates_in_period)
    /\ dict_cost_of_taking_day_off =
          generate_cost_lookup(all_dates_in_period, all_public_holidays)
    /\ dict_variables = [period \in Range(holiday_periods) |-> var_name(period)]
    /\ model = [objective |-> Some(objective_function),
                constraints |-> <<budget_constraint>> \o dict_date_constraints,
                status |-> "Optimal", solves |-> 1]

InitDecode ==
    /\ LocalConfig \in ConfigsDecode
    /\ start_weekday \in {1}
    /\ all_public_holidays \in {{}}
    /\ model_built
    /\ varValue \in [Variables -> SolvedValues]
    /\ printed = <<>>
    /\ selected_periods = None
    /\ pc = "decode"

SpecDecode == InitDecode /\ [][Decode]_vars

-----------------------------------------------------------------------------
(* 6. Cost queries on their own: the cost of a date or of a period is asked *)
(* for, inside the planning period or outside of it                        *)

\* the outcome of a call: the value it returns, or the exception it raises
Returned(value) == <<"returned", value>>

KeyError(key) == <<"KeyError", key>>

\* daily_cost_lookup[day], a subscript on a Python dict
getitem(daily_cost_lookup, day) ==
    IF day \in DOMAIN daily_cost_lookup THEN Returned(daily_cost_lookup[day])
    ELSE KeyError(day)

\* (variant: a date that is not in the lookup costs nothing)
cost_of_period_call_with_default(period, daily_cost_lookup) ==
    Returned(SumSeq([i \in DOMAIN all_days(period) |->
                        IF all_days(period)[i] \in DOMAIN daily_cost_lookup
                        THEN daily_cost_lookup[all_days(period)[i]] ELSE 0]))

\* a call of calculate_cost_of_period: the subscript on the first day that is
\* not in the lookup raises, and nothing is returned
cost_of_period_call(period, daily_cost_lookup) ==
    LET missing == {i \in DOMAIN all_days(period) :
                       all_days(period)[i] \notin DOMAIN daily_cost_lookup}
    IN  IF missing = {}
        THEN Returned(calculate_cost_of_period(period, daily_cost_lookup))
        ELSE getitem(daily_cost_lookup,
                     all_days(period)[CHOOSE i \in missing : \A j \in missing : i <= j])

ConfigsCost ==
    [ NUMBER_DAYS_IN_YEAR       : {MaxDays},
      MAX_HOLIDAY_PERIOD_LENGTH : {MaxLen},
      MIN_TIME_OFF_TO_GET_VALUE : {3},
      PERIOD_LENGTH_GAIN_START  : {4},
      PERIOD_LENGTH_GAIN_CUTOFF : {4},
      BASELINE_MARGINAL_VALUE   : {2},
      BONUS_MARGINAL_VALUE      : {1},
      PREFERRED_WEEKDAYS_OFF    : {{1, 5}},
      PREFERRED_DATES_OFF       : {{}},
      MUST_HAVE_DATES           : {{}},
      HOLIDAY_BUDGET            : {MaxBudget} ]

InitCost ==
    /\ LocalConfig \in ConfigsCost
    /\ start_weekday \in 1..7
    /\ all_public_holidays \in {{}, {1}}
    /\ model_built
    /\ varValue = [v \in Variables |-> None]
    /\ printed = <<>>
    /\ selected_periods = None
    /\ pc = "query"

\* the dates and periods asked about: up to one day before the first date of
\* the planning period and up to one day after the last
queried_dates == (0 - 1) .. (end_date[1] + 1)

queried_periods ==
    {HolidayPeriod(start_date, duration_in_days) :
        start_date \in queried_dates,
        duration_in_days \in 1..LocalConfig.MAX_HOLIDAY_PERIOD_LENGTH}

\* print(dict_cost_of_taking_day_off[potential_date])
QueryCostOfDate ==
    /\ pc = "query"
    /\ \E day \in queried_dates :
          printed' = Append(printed, <<"date", day, getitem(dict_cost_of_taking_day_off, day)>>)
    /\ pc' = "queried"
    /\ UNCHANGED <<LocalConfig, start_weekday, all_public_holidays, end_date,
                   all_dates_in_period, holiday_periods, dict_marginal_value_of_day_off,
                   dict_cost_of_taking_day_off, dict_variables, varValue, model,
                   selected_periods>>

\* print(calculate_cost_of_period(period, dict_cost_of_taking_day_off))
QueryCostOfPeriod ==
    /\ pc = "query"
    /\ \E period \in queried_periods :
          printed' = Append(printed,
                            <<"period", period,
                              cost_of_period_call(period, dict_cost_of_taking_day_off)>>)
    /\ pc' = "queried"
    /\ UNCHANGED <<LocalConfig, start_weekday, all_public_holidays, end_date,
                   all_dates_in_period, holiday_periods, dict_marginal_value_of_day_off,
                   dict_cost_of_taking_day_off, dict_variables, varValue, model,
                   selected_periods>>

NextCost ==
    \/ QueryCostOfDate
    \/ QueryCostOfPeriod

SpecCost == InitCost /\ [][NextCost]_vars

-----------------------------------------------------------------------------
(* 7. Period generation on its own: any ascending list of candidate start   *)
(* dates, among them the empty one, and a planning end date                *)

ConfigsGenerate ==
    [ NUMBER_DAYS_IN_YEAR       : {MaxDays},
      MAX_HOLIDAY_PERIOD_LENGTH : 0..MaxLen,
      MIN_TIME_OFF_TO_GET_VALUE : {3},
      PERIOD_LENGTH_GAIN_START  : {4},
      PERIOD_LENGTH_GAIN_CUTOFF : {4},
      BASELINE_MARGINAL_VALUE   : {2},
      BONUS_MARGINAL_VALUE      : {1},
      PREFERRED_WEEKDAYS_OFF    : {{1, 5}},
      PREFERRED_DATES_OFF       : {{}},
      MUST_HAVE_DATES           : {{}},
      HOLIDAY_BUDGET            : {MaxBudget} ]

\* the dates of a set as a list in ascending order
ascending(dates) ==
    [i \in 1..Cardinality(dates) |->
        CHOOSE datestamp \in dates :
            Cardinality({other \in dates : other < datestamp}) = i - 1]

\* the call generate_all_possible_holiday_periods(potential_start_dates,
\* planning_end_date) is about to be made; the two arguments are held in
\* all_dates_in_period and end_date
InitGenerate ==
    /\ LocalConfig \in ConfigsGenerate
    /\ start_weekday = 1
    /\ all_public_holidays = {}
    /\ pc = "periods"
    /\ \E dates \in SUBSET (0..(MaxDays - 1)) : all_dates_in_period = ascending(dates)
    /\ end_date \in {Some(MaxDays - 2), Some(MaxDays - 1)}
    /\ holiday_periods = <<>>
    /\ dict_marginal_value_of_day_off = <<>>
    /\ dict_cost_of_taking_day_off = <<>>
    /\ dict_variables = <<>>
    /\ varValue = <<>>
    /\ model = None
    /\ printed = <<>>
    /\ selected_periods = None

SpecGenerate == InitGenerate /\ [][GeneratePeriods]_vars

-----------------------------------------------------------------------------
(* Properties *)

solved == pc \in {"status", "decode", "done",
                 "status_again", "decode_again", "done_again"}

catalog_built == pc \notin {"dates", "periods"}

lookups_built == pc \notin {"dates", "periods", "marginal_value", "cost"}

days_of(period) == period.start_date .. (period.start_date + period.duration_in_days - 1)

covering(periods, datestamp) == {i \in DOMAIN periods : datestamp \in days_of(periods[i])}

no_overlap(periods) ==
    \A datestamp \in Range(all_dates_in_period) :
        Cardinality(covering(periods, datestamp)) <= 1

total_cost(periods) ==
    SumSeq([i \in DOMAIN periods |->
               calculate_cost_of_period(periods[i], dict_cost_of_taking_day_off)])

\* C1: after a solve that reports OPTIMAL, every date of the horizon is in at
\* most one of the decoded periods (what decoding yields, and what it yielded)
C1_NoOverlapAfterOptimal ==
    (solved /\ model.status = "Optimal") =>
        /\ no_overlap(get_selected_holiday_periods)
        /\ selected_periods # None => no_overlap(selected_periods[1])

\* two periods were selected by an optimal solve and decoded
C1_Witness ==
    /\ pc = "done"
    /\ model.status = "Optimal"
    /\ Len(selected_periods[1]) >= 2

\* C2: after a solve that reports OPTIMAL, the decoded periods cost at most
\* the holiday budget in total
C2_BudgetAfterOptimal ==
    (solved /\ model.status = "Optimal") =>
        /\ total_cost(get_selected_holiday_periods) <= LocalConfig.HOLIDAY_BUDGET
        /\ selected_periods # None =>
               total_cost(selected_periods[1]) <= LocalConfig.HOLIDAY_BUDGET

\* an optimal solve spent the whole of a positive budget
C2_Witness ==
    /\ pc = "done"
    /\ model.status = "Optimal"
    /\ LocalConfig.HOLIDAY_BUDGET > 0
    /\ total_cost(selected_periods[1]) = LocalConfig.HOLIDAY_BUDGET

min(a, b) == IF a < b THEN a ELSE b

\* every (start, duration) with duration in 1..M whose last day is not after
\* the horizon end
periods_within_horizon ==
    {p \in {[start_date |-> s, duration_in_days |-> d] :
                s \in Range(all_dates_in_period),
                d \in 1..LocalConfig.MAX_HOLIDAY_PERIOD_LENGTH} :
        p.start_date + p.duration_in_days - 1 <= end_date[1]}

closed_form_count ==
    SumSeq([i \in 1..LocalConfig.NUMBER_DAYS_IN_YEAR |->
               min(LocalConfig.MAX_HOLIDAY_PERIOD_LENGTH,
                   LocalConfig.NUMBER_DAYS_IN_YEAR - (i - 1))])

\* C3: the catalog holds every (start, duration) with duration in 1..M whose
\* last day is not after the horizon end, each exactly once, so it has
\* sum over s = 0..H-1 of min(M, H - s) periods
C3_CatalogComplete ==
    catalog_built =>
        /\ Range(holiday_periods) = periods_within_horizon
        /\ Len(holiday_periods) = Cardinality(Range(holiday_periods))
        /\ Len(holiday_periods) = closed_form_count

\* C4: every period of the catalog ends on or before the horizon end and
\* lasts at least one day
C4_PeriodsWithinHorizon ==
    catalog_built =>
        \A i \in DOMAIN holiday_periods :
            /\ holiday_periods[i].start_date + holiday_periods[i].duration_in_days - 1
                   <= end_date[1]
            /\ holiday_periods[i].duration_in_days >= 1

\* the end check cut the durations of some start date short of the maximum
C4_Witness ==
    /\ catalog_built
    /\ \E i \in DOMAIN holiday_periods :
          /\ holiday_periods[i].duration_in_days < LocalConfig.MAX_HOLIDAY_PERIOD_LENGTH
          /\ [start_date |-> holiday_periods[i].start_date,
              duration_in_days |-> holiday_periods[i].duration_in_days + 1]
                 \notin Range(holiday_periods)

objective_set == lookups_built /\ pc \notin {"model", "variables", "objective"}

\* the value of one unit of duration gain (1.0), in half-units
unit_gain == 2

\* C5: a period shorter than the minimum time off to get value has utility
\* exactly 0, as computed and as its coefficient in the objective
C5_ShortPeriodNoValue ==
    lookups_built =>
        \A period \in Range(holiday_periods) :
            period.duration_in_days < LocalConfig.MIN_TIME_OFF_TO_GET_VALUE =>
                /\ calculate_value_of_period(period, dict_marginal_value_of_day_off) = 0
                /\ objective_set => model.objective[1][dict_variables[period]] = 0

\* a too-short period that covers a day carrying a preference bonus is in the
\* objective
C5_Witness ==
    /\ objective_set
    /\ \E period \in Range(holiday_periods) :
          /\ period.duration_in_days < LocalConfig.MIN_TIME_OFF_TO_GET_VALUE
          /\ \E day \in days_of(period) :
                dict_marginal_value_of_day_off[day] > LocalConfig.BASELINE_MARGINAL_VALUE

\* C6: a period at least as long as the minimum time off to get value has
\* utility = the marginal values of its days + the duration value of its length
C6_LongPeriodValue ==
    lookups_built =>
        \A period \in Range(holiday_periods) :
            period.duration_in_days >= LocalConfig.MIN_TIME_OFF_TO_GET_VALUE =>
                LET total == SumOver(dict_marginal_value_of_day_off, days_of(period))
                             + calculate_value_for_period_duration(period.duration_in_days)
                IN  /\ calculate_value_of_period(period, dict_marginal_value_of_day_off)
                           = total
                    /\ objective_set =>
                           model.objective[1][dict_variables[period]] = total

\* a period of exactly the minimum duration, with a duration value, is in the
\* objective
C6_Witness ==
    /\ objective_set
    /\ \E period \in Range(holiday_periods) :
          /\ period.duration_in_days = LocalConfig.MIN_TIME_OFF_TO_GET_VALUE
          /\ calculate_value_for_period_duration(period.duration_in_days) > 0

\* C7: the duration value is 0 below gain_start, (duration - gain_start + 1)
\* units from gain_start to gain_cutoff, and never decreases as the duration
\* grows from 0
C7_DurationValuePiecewiseMonotone ==
    objective_set =>
        \A d \in 0..MaxDuration :
            /\ d < LocalConfig.PERIOD_LENGTH_GAIN_START =>
                   calculate_value_for_period_duration(d) = 0
            /\ (/\ LocalConfig.PERIOD_LENGTH_GAIN_START <= d
                /\ d <= LocalConfig.PERIOD_LENGTH_GAIN_CUTOFF) =>
                   calculate_value_for_period_duration(d)
                       = (d - LocalConfig.PERIOD_LENGTH_GAIN_START + 1) * unit_gain
            /\ calculate_value_for_period_duration(d)
                   <= calculate_value_for_period_duration(d + 1)

\* C8: beyond gain_cutoff the duration value stays at its value at
\* gain_cutoff, (gain_cutoff - gain_start + 1) units; the values at gain_cutoff
\* and at gain_cutoff + 5 are equal
C8_DurationValueFlatBeyondCutoff ==
    objective_set =>
        /\ \A d \in 0..MaxDuration :
               d > LocalConfig.PERIOD_LENGTH_GAIN_CUTOFF =>
                   /\ calculate_value_for_period_duration(d)
                          = calculate_value_for_period_duration(
                                LocalConfig.PERIOD_LENGTH_GAIN_CUTOFF)
                   /\ calculate_value_for_period_duration(d)
                          = (LocalConfig.PERIOD_LENGTH_GAIN_CUTOFF
                             - LocalConfig.PERIOD_LENGTH_GAIN_START + 1) * unit_gain
        /\ calculate_value_for_period_duration(LocalConfig.PERIOD_LENGTH_GAIN_CUTOFF)
               = calculate_value_for_period_duration(
                     LocalConfig.PERIOD_LENGTH_GAIN_CUTOFF + 5)

free_day(datestamp) ==
    \/ ((start_weekday - 1 + datestamp) % 7) + 1 \in {6, 7}
    \/ datestamp \in all_public_holidays

\* C9: the cost of a date is 0 on Saturdays, Sundays and public holidays and 1
\* otherwise; the cost of a period is the sum of the costs of its days, between
\* 0 and its duration
C9_CostLookupAndPeriodCost ==
    lookups_built =>
        /\ DOMAIN dict_cost_of_taking_day_off = Range(all_dates_in_period)
        /\ \A datestamp \in Range(all_dates_in_period) :
               dict_cost_of_taking_day_off[datestamp]
                   = IF free_day(datestamp) THEN 0 ELSE 1
        /\ \A period \in Range(holiday_periods) :
               LET cost == calculate_cost_of_period(period, dict_cost_of_taking_day_off)
               IN  /\ cost = SumOver(dict_cost_of_taking_day_off, days_of(period))
                   /\ cost = Cardinality({day \in days_of(period) : ~free_day(day)})
                   /\ 0 <= cost
                   /\ cost <= period.duration_in_days

\* the horizon has a weekend day, a public holiday on a weekday and a paid
\* day, and a catalog period mixes free and paid days
C9_Witness ==
    /\ lookups_built
    /\ \E we, ph, wd \in Range(all_dates_in_period) :
          /\ is_weekend_day(we)
          /\ ~is_weekend_day(ph) /\ ph \in all_public_holidays
          /\ dict_cost_of_taking_day_off[wd] = 1
    /\ \E period \in Range(holiday_periods) :
          LET cost == calculate_cost_of_period(period, dict_cost_of_taking_day_off)
          IN  0 < cost /\ cost < period.duration_in_days

preferred_weekday(datestamp) ==
    ((start_weekday - 1 + datestamp) % 7) + 1 \in LocalConfig.PREFERRED_WEEKDAYS_OFF

preferred_date(datestamp) == datestamp \in LocalConfig.PREFERRED_DATES_OFF

\* C10: the marginal value of a date is baseline + bonus when its weekday or
\* the date itself is preferred, baseline otherwise; a date matching both
\* rules gets the bonus once
C10_MarginalValueBonusOnce ==
    lookups_built =>
        /\ DOMAIN dict_marginal_value_of_day_off = Range(all_dates_in_period)
        /\ \A datestamp \in Range(all_dates_in_period) :
               dict_marginal_value_of_day_off[datestamp]
                   = IF preferred_weekday(datestamp) \/ preferred_date(datestamp)
                     THEN LocalConfig.BASELINE_MARGINAL_VALUE
                          + LocalConfig.BONUS_MARGINAL_VALUE
                     ELSE LocalConfig.BASELINE_MARGINAL_VALUE

\* a date of the horizon is a preferred date on a preferred weekday, and
\* another date matches neither rule
C10_Witness ==
    /\ lookups_built
    /\ \E both, neither \in Range(all_dates_in_period) :
          /\ preferred_weekday(both) /\ preferred_date(both)
          /\ ~preferred_weekday(neither) /\ ~preferred_date(neither)

\* the value the solve left in the variable of a period
value_of(period) == varValue[dict_variables[period]]

\* C11: decoding selects a period exactly when the value of its variable is
\* above 0.99: a variable at 0.995 is selected; one at 0.5, one at exactly
\* 0.99 and any other in (0, 0.99] is not
C11_DecodeThreshold ==
    (pc = "done" /\ selected_periods # None) =>
        \A i \in DOMAIN holiday_periods :
            LET period == holiday_periods[i]
                selected == period \in Range(selected_periods[1])
            IN  /\ selected <=> (value_of(period) # None /\ value_of(period)[1] > 990)
                /\ value_of(period) = Some(995) => selected
                /\ value_of(period) \in {Some(500), Some(990)} => ~selected
                /\ (value_of(period) # None /\ value_of(period)[1] > 0
                      /\ value_of(period)[1] <= 990) => ~selected

\* variables at 0.995, at 0.99 and at 0.5 were decoded: the first one only is
\* among the selected periods
C11_Witness ==
    /\ pc = "done"
    /\ \E p1, p2, p3 \in Range(holiday_periods) :
          /\ value_of(p1) = Some(995) /\ p1 \in Range(selected_periods[1])
          /\ value_of(p2) = Some(990) /\ p2 \notin Range(selected_periods[1])
          /\ value_of(p3) = Some(500) /\ p3 \notin Range(selected_periods[1])

\* the statuses of pulp.LpStatus other than Optimal
NonOptimalStatuses == {"NotSolved", "Infeasible", "Unbounded", "Undefined"}

\* the status check has just run
status_checked == pc \in {"decode", "decode_again"}

\* C12: when a solve ends with a status other than OPTIMAL, what the run
\* reports identifies that status: the report it has just printed is not the
\* report of any other non-optimal status
C12_ReportIdentifiesStatus ==
    (status_checked /\ model.status # "Optimal") =>
        /\ printed # <<>>
        /\ \A other \in NonOptimalStatuses \ {model.status} :
              status_report(other) # <<printed[Len(printed)]>>

\* the decode cell has run on the outcome of the last solve
decoded == pc \in {"done", "done_again"}

\* C13: after a solve that reports INFEASIBLE the run does not decode: no set
\* of selected periods is read from the variables, whatever they hold
C13_NoDecodeAfterInfeasible ==
    decoded => model.status # "Infeasible"

invalid_config ==
    \/ LocalConfig.MAX_HOLIDAY_PERIOD_LENGTH <= 0
    \/ LocalConfig.HOLIDAY_BUDGET < 0
    \/ LocalConfig.PERIOD_LENGTH_GAIN_CUTOFF < LocalConfig.PERIOD_LENGTH_GAIN_START

\* C14: a configuration with max_duration <= 0, budget < 0 or gain_cutoff <
\* gain_start is rejected with ConfigurationError before the model is built:
\* no model, variable, objective or constraint exists for it
C14_InvalidConfigRejected ==
    invalid_config =>
        /\ model = None
        /\ dict_variables = <<>>
        /\ pc \in {"dates", "periods", "marginal_value", "cost", "model"}

in_horizon(datestamp) == datestamp \in Range(all_dates_in_period)

\* C15: asking for the cost of a date outside the horizon of the lookup, on
\* its own or as a day of a period, ends in an error and never in a cost; a
\* query that stays inside the horizon returns the cost
C15_OutOfRangeCostQueryRaises ==
    \A i \in DOMAIN printed :
        LET query == printed[i]
            outcome == query[3]
        IN  /\ query[1] = "date" =>
                  IF in_horizon(query[2])
                  THEN outcome = Returned(dict_cost_of_taking_day_off[query[2]])
                  ELSE outcome[1] = "KeyError"
            /\ query[1] = "period" =>
                  IF \A datestamp \in days_of(query[2]) : in_horizon(datestamp)
                  THEN outcome[1] = "returned"
                  ELSE outcome[1] = "KeyError"

\* a period that starts inside the horizon and runs past its end was asked
\* for, and the query raised
C15_Witness ==
    /\ pc = "queried"
    /\ printed[1][1] = "period"
    /\ in_horizon(printed[1][2].start_date)
    /\ printed[1][3][1] = "KeyError"

\* a must-have date that is a weekday and no public holiday
paid_must_have_date ==
    \E datestamp \in LocalConfig.MUST_HAVE_DATES :
        in_horizon(datestamp) /\ ~free_day(datestamp)

min_duration_required == pc \in {"solve_again", "status_again", "decode_again", "done_again"}

\* the model with the MinRestPeriod constraint has been solved
solved_again == pc \in {"status_again", "decode_again", "done_again"}

long_enough(period) == duration(period) >= single_minimum_duration

has_long_period(periods) == \E i \in DOMAIN periods : long_enough(periods[i])

\* C17: with the minimum-duration constraint in the model, every solve that
\* reports OPTIMAL yields a selection with at least one period of the
\* minimum duration or longer; when the catalog has no such period the model
\* has no feasible selection and no solve of it reports OPTIMAL
C17_MinDurationConstraint ==
    /\ (solved_again /\ model.status = "Optimal") =>
          /\ has_long_period(get_selected_holiday_periods)
          /\ pc = "done_again" => has_long_period(selected_periods[1])
    /\ (min_duration_required /\ ~has_long_period(holiday_periods)) =>
          /\ feasible_selections(model) = {}
          /\ model.status = "Optimal" => ~solved_again

\* the first solve selected no long period; the second one, with the
\* constraint, is optimal and about to be decoded with a long period selected
C17_Witness ==
    /\ pc = "decode_again"
    /\ model.status = "Optimal"
    /\ ~has_long_period(selected_periods[1])
    /\ has_long_period(get_selected_holiday_periods)

\* the end-to-end scenario: a week that starts on a Monday, no public
\* holidays, a budget of 2
week_from_monday ==
    /\ LocalConfig \in ConfigsWeek
    /\ start_weekday = 1
    /\ all_public_holidays = {}
    /\ LocalConfig.HOLIDAY_BUDGET = 2

monday_five_days == HolidayPeriod(0, 5)

\* C18 (as stated): in the end-to-end scenario the period (Monday, 5 days)
\* has a cost of 3
C18_MondayFiveDaysCostsThree ==
    (week_from_monday /\ lookups_built) =>
        calculate_cost_of_period(monday_five_days, dict_cost_of_taking_day_off) = 3

\* C18 (amended): in the end-to-end scenario the period (Monday, 5 days) is in
\* the catalog and costs 5, one unit for each of its days Monday to Friday
C18_MondayFiveDaysCostsFive ==
    (week_from_monday /\ lookups_built) =>
        /\ \E i \in DOMAIN holiday_periods : holiday_periods[i] = monday_five_days
        /\ calculate_cost_of_period(monday_five_days, dict_cost_of_taking_day_off) = 5
        /\ \A datestamp \in days_of(monday_five_days) :
              dict_cost_of_taking_day_off[datestamp] = 1

\* the budget constraint of the scenario was built, with 5 as the coefficient
\* of the variable of (Monday, 5 days)
C18_Witness ==
    /\ week_from_monday
    /\ pc = "done"
    /\ model.constraints[1].e[dict_variables[monday_five_days]] = 5

paid_days(period) == {datestamp \in days_of(period) : ~free_day(datestamp)}

latest(dates) == CHOOSE datestamp \in dates : \A other \in dates : other <= datestamp

two_paid_days_ending_friday(period) ==
    /\ Cardinality(paid_days(period)) = 2
    /\ isoweekday(latest(paid_days(period))) = 5

\* C19: in the end-to-end scenario every optimal solution costs at most 2
\* budget units and selects a period with exactly two paid weekdays, the
\* later of which is the Friday
C19_WeekOptimum ==
    (week_from_monday /\ solved /\ model.status = "Optimal") =>
        /\ total_cost(get_selected_holiday_periods) <= 2
        /\ \E i \in DOMAIN get_selected_holiday_periods :
              two_paid_days_ending_friday(get_selected_holiday_periods[i])
        /\ pc = "done" =>
              /\ total_cost(selected_periods[1]) <= 2
              /\ \E i \in DOMAIN selected_periods[1] :
                    two_paid_days_ending_friday(selected_periods[1][i])

\* the scenario was solved to optimality and decoded
C19_Witness ==
    /\ week_from_monday
    /\ pc = "done"
    /\ model.status = "Optimal"
    /\ selected_periods[1] # <<>>

\* C20: of two catalog periods with the same start, the longer one costs at
\* least as much as the shorter one, and the difference is the number of its
\* added days that are neither weekend days nor public holidays
C20_CostMonotoneInDuration ==
    lookups_built =>
        \A i, j \in DOMAIN holiday_periods :
            LET shorter == holiday_periods[i]
                longer == holiday_periods[j]
                shorter_cost == calculate_cost_of_period(shorter, dict_cost_of_taking_day_off)
                longer_cost == calculate_cost_of_period(longer, dict_cost_of_taking_day_off)
            IN  (shorter.start_date = longer.start_date
                   /\ duration(shorter) < duration(longer)) =>
                    /\ longer_cost >= shorter_cost
                    /\ longer_cost - shorter_cost =
                          Cardinality(paid_days(longer) \ days_of(shorter))

\* the catalog holds a period and a longer one from the same start whose
\* added days are partly paid and partly free
C20_Witness ==
    /\ lookups_built
    /\ \E i, j \in DOMAIN holiday_periods :
          /\ holiday_periods[i].start_date = holiday_periods[j].start_date
          /\ duration(holiday_periods[i]) < duration(holiday_periods[j])
          /\ paid_days(holiday_periods[j]) \ days_of(holiday_periods[i]) # {}
          /\ (days_of(holiday_periods[j]) \ days_of(holiday_periods[i]))
                \ paid_days(holiday_periods[j]) # {}

\* the call of generate_all_possible_holiday_periods has returned
generated == pc = "marginal_value"

\* C21: period generation does not fail: with an empty list of candidate
\* start dates, or with a maximum duration of 0, the call returns and the
\* catalog it returns is empty
C21_EmptyInputsGiveEmptyCatalog ==
    /\ (pc = "periods" /\ (all_dates_in_period = <<>>
                            \/ LocalConfig.MAX_HOLIDAY_PERIOD_LENGTH = 0)) =>
          ENABLED GeneratePeriods
    /\ (generated /\ (all_dates_in_period = <<>>
                       \/ LocalConfig.MAX_HOLIDAY_PERIOD_LENGTH = 0)) =>
          holiday_periods = <<>>

\* the call returned for start dates with a maximum duration of 0
C21_Witness ==
    /\ generated
    /\ all_dates_in_period # <<>>
    /\ LocalConfig.MAX_HOLIDAY_PERIOD_LENGTH = 0
    /\ holiday_periods = <<>>

\* every (start, duration) pair with duration in 1..max_duration, kept when
\* the end check of the generator does not fail for it
filtered_without_early_exit(potential_start_dates, planning_end_date) ==
    {period \in {HolidayPeriod(start, dur) :
                    start \in Range(potential_start_dates),
                    dur \in 1..LocalConfig.MAX_HOLIDAY_PERIOD_LENGTH} :
        ~(period.start_date + period.duration_in_days > planning_end_date)}

\* C26: for every ascending list of candidate start dates, end date and
\* maximum duration, the catalog generated with the early exit is the same
\* set of periods as the one found by testing every (start, duration) pair
\* against the same end check, and holds none of them twice
C26_EarlyExitEqualsFilter ==
    generated =>
        /\ Range(holiday_periods) =
              filtered_without_early_exit(all_dates_in_period, end_date[1])
        /\ Len(holiday_periods) =
              Cardinality(filtered_without_early_exit(all_dates_in_period, end_date[1]))

\* the early exit was taken for one start date and not for an earlier one
C26_Witness ==
    /\ generated
    /\ \E i, j \in DOMAIN all_dates_in_period :
          /\ i < j
          /\ Len(periods_from(all_dates_in_period[i], 1, end_date[1]))
                = LocalConfig.MAX_HOLIDAY_PERIOD_LENGTH
          /\ Len(periods_from(all_dates_in_period[j], 1, end_date[1]))
                < LocalConfig.MAX_HOLIDAY_PERIOD_LENGTH
          /\ Len(periods_from(all_dates_in_period[j], 1, end_date[1])) > 0

objective_assembled == model # None /\ model.objective # None

constraint_names ==
    IF model = None THEN {}
    ELSE {model.constraints[i].name : i \in DOMAIN model.constraints}

budget_and_coverage_in_model ==
    /\ <<"BudgetConstraint">> \in constraint_names
    /\ \A datestamp \in Range(all_dates_in_period) :
          <<"OneDayPerDate", datestamp>> \in constraint_names

solver_invoked == model # None /\ model.solves > 0

\* C22: the phases happen in the order variable creation, objective,
\* constraints, solve, decode: an objective is in the model only when every
\* catalog period has its variable, constraints only when the objective is
\* set, the solver has been invoked only on a model with the budget and
\* coverage constraints, periods are decoded only after a solve, and a
\* finished run has gone through all of them
C22_PhasesInOrder ==
    /\ objective_assembled =>
          /\ DOMAIN dict_variables = Range(holiday_periods)
          /\ DOMAIN model.objective[1] = Variables
    /\ constraint_names # {} => objective_assembled
    /\ solver_invoked => (objective_assembled /\ budget_and_coverage_in_model)
    /\ selected_periods # None => solver_invoked
    /\ pc = "done" =>
          /\ DOMAIN dict_variables = Range(holiday_periods)
          /\ objective_assembled
          /\ budget_and_coverage_in_model
          /\ solver_invoked
          /\ selected_periods # None

\* a run over a catalog with periods went through every phase and is finished
C22_Witness ==
    /\ pc = "done"
    /\ holiday_periods # <<>>
    /\ solver_invoked
    /\ budget_and_coverage_in_model
    /\ selected_periods # None

\* a constraint has just been added to the model (the cell after it is next)
constraint_just_added == pc \in {"coverage", "must_have", "solve", "solve_again"}

\* C23: a model that has been submitted to the solver is not mutated: the
\* model a constraint has just been added to has never been solved
C23_NoConstraintAfterSolve ==
    (constraint_just_added /\ model # None) => model.solves = 0

\* C24: a run issues exactly one solve request: the model is never solved a
\* second time, and the finished run has solved it once
C24_OneSolvePerRun ==
    /\ model # None => model.solves <= 1
    /\ pc \in {"done", "done_again"} => model.solves = 1

variables_created ==
    pc \notin {"dates", "periods", "marginal_value", "cost", "model", "variables"}

\* C25: after variable creation there is exactly one binary variable per
\* catalog period: the mapping has as many entries as the catalog has
\* periods, distinct periods have distinct variables with distinct names, and
\* an optimal solve leaves 0 or 1 in each
C25_OneVariablePerPeriod ==
    variables_created =>
        /\ DOMAIN dict_variables = Range(holiday_periods)
        /\ Cardinality(DOMAIN dict_variables) = Len(holiday_periods)
        /\ Cardinality(Variables) = Len(holiday_periods)
        /\ \A p1, p2 \in DOMAIN dict_variables :
              p1 # p2 => (dict_variables[p1] # dict_variables[p2]
                           /\ var_name(p1) # var_name(p2))
        /\ DOMAIN varValue = Variables
        /\ (solved /\ model.status = "Optimal") =>
               \A v \in Variables : varValue[v] \in {Some(0), Some(1000)}

\* variables were created for a catalog with two periods from the same start
C25_Witness ==
    /\ variables_created
    /\ \E p1, p2 \in DOMAIN dict_variables :
          p1 # p2 /\ p1.start_date = p2.start_date

no_variable_has_a_value == \A v \in Variables : varValue[v] = None

\* C27: decoding tolerates a missing assignment: it returns also when
\* variables have no value, a variable without a value is skipped, an
\* assignment in which no variable has a value decodes to the empty
\* selection, and a partial one to the periods whose variable has a value
\* above 0.99
C27_DecodeSkipsMissingValues ==
    /\ (pc = "decode" /\ \E v \in Variables : varValue[v] = None) => ENABLED Decode
    /\ pc = "done" =>
          /\ selected_periods # None
          /\ no_variable_has_a_value => selected_periods[1] = <<>>
          /\ \A i \in DOMAIN holiday_periods :
                value_of(holiday_periods[i]) = None =>
                    holiday_periods[i] \notin Range(selected_periods[1])
          /\ \A i \in DOMAIN selected_periods[1] :
                /\ value_of(selected_periods[1][i]) # None
                /\ value_of(selected_periods[1][i])[1] > 990

\* a partial assignment was decoded: one variable has no value, another one
\* is at 1 and its period is the selection
C27_Witness ==
    /\ pc = "done"
    /\ \E p1, p2 \in Range(holiday_periods) :
          /\ value_of(p1) = None
          /\ value_of(p2) = Some(1000)
          /\ selected_periods[1] = <<p2>>

\* C28: with a maximum duration of 1 or more and every date of the horizon a
\* candidate start, every date of the horizon, the last one included, is in
\* at least one catalog period, so that every coverage constraint ranges over
\* at least one variable
C28_EveryDateCovered ==
    (catalog_built /\ LocalConfig.MAX_HOLIDAY_PERIOD_LENGTH >= 1) =>
        /\ \A datestamp \in Range(all_dates_in_period) :
              covering(holiday_periods, datestamp) # {}
        /\ variables_created =>
              \A datestamp \in Range(all_dates_in_period) :
                  dict_date_variable_coverage[datestamp] # {}

\* the base model: objective, budget constraint and coverage constraints, no
\* optional constraint
base_model ==
    /\ model # None
    /\ constraint_names =
          {<<"BudgetConstraint">>}
             \cup {<<"OneDayPerDate", datestamp>> : datestamp \in Range(all_dates_in_period)}

sum_of_all_utilities == SumOver(model.objective[1], Variables)

\* the variables an optimal solve left at 1
chosen == {v \in Variables : varValue[v] = Some(1000)}

\* C29: for the base model with a budget of 0 or more, the selection of no
\* period satisfies every constraint and the objective is at most the sum of
\* all period utilities (the optimum, the largest value a feasible selection
\* has, is), so the solve of the base model reports neither INFEASIBLE nor
\* UNBOUNDED
C29_BaseModelFeasibleAndBounded ==
    (pc = "status" /\ base_model /\ LocalConfig.HOLIDAY_BUDGET >= 0) =>
        /\ \A i \in DOMAIN model.constraints : satisfies(model.constraints[i], {})
        /\ model.status = "Optimal" =>
              /\ \A i \in DOMAIN model.constraints : satisfies(model.constraints[i], chosen)
              /\ objective_value(model, {}) <= objective_value(model, chosen)
              /\ objective_value(model, chosen) <= sum_of_all_utilities
        /\ model.status \notin {"Infeasible", "Unbounded"}

\* the base model was solved to optimality with a budget of 0 and periods
\* that all cost something
C29_Witness ==
    /\ pc = "status"
    /\ base_model
    /\ LocalConfig.HOLIDAY_BUDGET = 0
    /\ model.status = "Optimal"
    /\ Variables # {}
    /\ \A v \in Variables : model.constraints[1].e[v] > 0

====
